---- MODULE Spec2Model ----
(***************************************************************************)
(* SpatioTemporalPipeline of FreeBloom                                     *)
(* (src/freebloom/pipelines/pipeline_spatio_temporal.py): the denoising    *)
(* sampler __call__, the attention controller it drives and the frame      *)
(* interpolation loop interpolate_between_two_frames.                      *)
(*                                                                         *)
(* Tensors are modelled by one number per frame: a latent tensor           *)
(* [b, c, f, h, w] is a sequence of f values of Vals, a conditioning       *)
(* embedding [rows, seq, dim] a sequence of integers, one per row.         *)
(* Python positions are 0-based; At(s, p) reads position p.                *)
(***************************************************************************)
EXTENDS Integers, Sequences, FiniteSets, TLC

\* ---------------------------------------------------------------- bounds
MaxFrames == 3
MaxSteps == 2
MaxK == 2
MaxCalls == 2

\* the values one frame of a latent tensor takes
Vals == 0..2
NumVals == Cardinality(Vals)

\* one unit of a text embedding; k halvings of a unit stay integral
EmbUnit == 2 ^ (MaxK + 1)

\* ------------------------------------------------------ program constants
MaskSteps == 10
NumInsert == 1
SizeDivisor == 8
SampleSize == 64
DefaultSize == SampleSize * SizeDivisor

\* ----------------------------------------------------------------- helpers
At(s, p) == s[p + 1]
Range(s) == {s[j] : j \in DOMAIN s}
Positions(n) == 0..(n - 1)
SeqOfLen(S, n) == [1..n -> S]
Max(a, b) == IF a >= b THEN a ELSE b
Min(a, b) == IF a <= b THEN a ELSE b

VARIABLES
  pc,               \* position of the running call
  calls,            \* top-level calls made so far
  held,             \* what the caller keeps of its last completed sampler call
  err,              \* the exception raised, "" when none
  caller,           \* who invoked the sampler: "env" or "interp"
  scheduler,        \* the scheduler given to the constructor: [order, extra]
  byRef,            \* whether the store keeps the tensor object it was handed
  \* attention controller (self.controller)
  latents_store, cur_step, batch_size, step_store, registered,
  \* scheduler state
  sched_steps,
  \* __call__: arguments and locals
  args, text_embeddings, timesteps, latents, i, unet_out, noise_pred, video,
  \* interpolate_between_two_frames: arguments and locals
  iargs, samples, x_noise, emb, prompt_temp, times, inner_step, tgt_idx, original_idx,
  \* observation of the running sampler call
  log, pre, fed, left,
  \* observation of the running interpolation
  invoked, accepted, origin, emb0, noise0

ctrlVars == <<latents_store, cur_step, batch_size, step_store, registered>>
callVars == <<args, text_embeddings, timesteps, latents, i, unet_out, noise_pred, video>>
obsVars == <<log, pre, fed, left>>
interpVars == <<iargs, samples, x_noise, emb, prompt_temp, times, inner_step, tgt_idx,
                original_idx, invoked, accepted, origin, emb0, noise0>>
vars == <<pc, calls, held, err, caller, scheduler, byRef, ctrlVars, sched_steps, callVars,
          obsVars, interpVars>>

\* ------------------------------------------------ external collaborators
\* The networks and the scheduler are opaque functions of their inputs; the
\* model fixes one function for each, mixing every argument so that no two
\* different inputs are mapped alike by accident.

\* tokenizer + text_encoder: one embedding row per prompt; "" is prompt 0
TextEncoder(p) == EmbUnit * p

\* scheduler.set_timesteps / scheduler.timesteps: a descending schedule whose
\* length is num_inference_steps * order plus the scheduler's extra steps
NumTimesteps(sch, n) == Max(1, n * sch.order + sch.extra)
Timesteps(sch, n) == [j \in 1..NumTimesteps(sch, n) |-> NumTimesteps(sch, n) - j]

\* scheduler.init_noise_sigma
InitNoiseSigma == 1

\* scheduler.scale_model_input
ScaleModelInput(x, t) == [j \in DOMAIN x |-> (x[j] + t) % NumVals]

\* unet(latent_model_input, t, encoder_hidden_states): the estimate of one
\* half of the batch; a frame's estimate depends on the frame, its neighbour
\* (cross-frame attention), the frame count, the timestep and its embedding row
EmbRow(rows, j) == IF Len(rows) = 0 THEN 0 ELSE IF j <= Len(rows) THEN rows[j] ELSE rows[1]
Unet(x, t, rows) ==
  [j \in DOMAIN x |->
     (x[j] + 2 * x[(j % Len(x)) + 1] + Len(x) + t + EmbRow(rows, j)) % NumVals]

\* scheduler.step(noise_pred, t, latents).prev_sample
SchedulerStep(noise, t, x) == [j \in DOMAIN x |-> (x[j] + noise[j] + t + 1) % NumVals]

\* vae.decode on 1 / 0.18215 * latents, then (video / 2 + 0.5).clamp(0, 1);
\* pixel values are kept in halves, so the visible range [0, 1] is 0..2
Descale(x) == (x * 100000) \div 18215
VaeDecode(z) == (z % 4) - 1
Clamp(v, lo, hi) == Max(lo, Min(hi, v))
DecodeFrame(x) == Clamp(VaeDecode(Descale(x)) + 1, 0, 2)

\* --------------------------------------------------------------- inputs
SchedulerKinds ==
  { [order |-> 1, extra |-> 0],      \* DDIM, Euler, LMS, DPM-Solver
    [order |-> 1, extra |-> 1],      \* a schedule with a warm-up step
    [order |-> 2, extra |-> -1] }    \* a second-order scheduler

NoArgs == [prompt_type |-> "", prompt |-> <<>>, video_length |-> 0,
           height |-> 0, width |-> 0, num_inference_steps |-> 0,
           guidance_scale |-> 0, negative_type |-> "NoneType", negative_prompt |-> <<>>,
           generator_type |-> "NoneType", generator_len |-> 0,
           has_latents |-> FALSE, latents |-> <<>>, latents_hw |-> <<0, 0>>,
           has_callback |-> FALSE, callback_steps_type |-> "int", callback_steps |-> 1,
           has_fixed |-> FALSE, fixed_latents |-> <<>>, fixed_latents_idx |-> <<>>,
           has_inner |-> FALSE, inner_idx |-> <<>>,
           has_init |-> FALSE, init_text_embedding |-> <<>>,
           has_mask |-> FALSE, mask |-> <<0, 0>>]

\* a call with per-frame prompts 1..n, latents x and every other parameter at
\* its default (guidance_scale 2 stands for any value above 1.0)
BaseArgs(n, steps, x) ==
  [NoArgs EXCEPT !.prompt_type = "list", !.prompt = [j \in 1..n |-> j],
                 !.video_length = n, !.height = DefaultSize, !.width = DefaultSize,
                 !.num_inference_steps = steps, !.guidance_scale = 2,
                 !.has_latents = TRUE, !.latents = x,
                 !.latents_hw = <<SampleSize, SampleSize>>]

Ramp(n) == [j \in 1..n |-> j % NumVals]
Flat(n, v) == [j \in 1..n |-> v]
StartLatents(n) == {Ramp(n), Flat(n, 0)}

\* the direct calls of the sampler the caller makes: the defaults over every
\* frame count, step count and start latents, then one concern varied at a time
PlainCalls ==
  UNION {{BaseArgs(n, s, x) : s \in 1..MaxSteps, x \in StartLatents(n)} : n \in 1..MaxFrames}

SmallCalls == {BaseArgs(n, 1, Ramp(n)) : n \in 1..2}

InvalidCalls ==
  UNION {
    { [b EXCEPT !.prompt_type = "int", !.prompt = <<>>],
      [b EXCEPT !.prompt_type = "str", !.prompt = <<1>>],
      [b EXCEPT !.prompt = b.prompt \o <<1>>],
      [b EXCEPT !.height = 0],
      [b EXCEPT !.height = DefaultSize + 1],
      [b EXCEPT !.width = DefaultSize + SizeDivisor \div 2],
      [b EXCEPT !.height = DefaultSize + 1, !.callback_steps = 0],
      [b EXCEPT !.callback_steps_type = "NoneType"],
      [b EXCEPT !.callback_steps_type = "float"],
      [b EXCEPT !.callback_steps = 0],
      [b EXCEPT !.callback_steps = -1],
      [b EXCEPT !.negative_type = "str", !.negative_prompt = <<3>>],
      [b EXCEPT !.negative_type = "list", !.negative_prompt = b.prompt],
      [b EXCEPT !.negative_type = "list", !.negative_prompt = b.prompt \o <<3>>],
      [b EXCEPT !.prompt_type = "str", !.prompt = <<1>>, !.negative_type = "str",
                !.negative_prompt = <<3>>],
      [b EXCEPT !.generator_type = "Generator"],
      [b EXCEPT !.generator_type = "list", !.generator_len = 1],
      [b EXCEPT !.generator_type = "list", !.generator_len = 2],
      [b EXCEPT !.has_latents = FALSE, !.latents = <<>>],
      [b EXCEPT !.latents_hw = <<SampleSize, SampleSize + 1>>],
      [b EXCEPT !.prompt_type = "str", !.prompt = <<1>>, !.latents = b.latents \o <<0>>],
      [b EXCEPT !.generator_type = "list", !.generator_len = 2,
                !.latents_hw = <<SampleSize, SampleSize + 1>>] }
    : b \in SmallCalls }

CallbackCalls ==
  {[BaseArgs(1, s, Ramp(1)) EXCEPT !.has_callback = cb, !.callback_steps = c]
     : s \in 1..MaxSteps, cb \in BOOLEAN, c \in 1..3}

GuidanceCalls ==
  {[b EXCEPT !.guidance_scale = g] : b \in SmallCalls, g \in 0..3}

MaskCalls ==
  {[BaseArgs(n, s, Ramp(n)) EXCEPT !.has_mask = TRUE, !.mask = m]
     : n \in 1..2, s \in 1..MaxSteps, m \in {<<1, 0>>, <<0, 1>>, <<1, 1>>}}

FixedCalls ==
  {[BaseArgs(2, s, Ramp(2)) EXCEPT !.has_fixed = TRUE, !.fixed_latents = fl,
                                   !.fixed_latents_idx = <<0>>,
                                   !.has_inner = inner, !.inner_idx = IF inner THEN <<1>> ELSE <<>>]
     : s \in 1..MaxSteps, inner \in BOOLEAN,
       fl \in {[j \in 1..(2 * MaxSteps) |-> <<j % NumVals>>], <<<<1>>>>, <<<<1, 2, 0>>>>}}

DirectCalls ==
  PlainCalls \cup InvalidCalls \cup CallbackCalls \cup GuidanceCalls \cup MaskCalls
  \cup FixedCalls

\* ------------------------------------------------------------------ Init
NoHeld == [ok |-> FALSE, video |-> <<>>, latents |-> <<>>, prompt |-> <<>>, steps |-> 0,
           final |-> <<>>]

NoInterpArgs == [where |-> <<>>, k |-> 0, rand_ratio |-> 0, base_noise |-> <<>>,
                 guidance_scale |-> 0, num_inference_steps |-> 0, prompt |-> <<>>,
                 negative_prompt |-> 0]

Snapshot ==
  [latents_store |-> latents_store, cur_step |-> cur_step, batch_size |-> batch_size,
   registered |-> registered, sched_steps |-> sched_steps]

Init ==
  /\ pc = "idle" /\ calls = 0 /\ held = NoHeld /\ err = "" /\ caller = "env"
  /\ scheduler \in SchedulerKinds
  /\ byRef \in BOOLEAN
  /\ latents_store = <<>> /\ cur_step = 0 /\ batch_size = 0 /\ step_store = 0
  /\ registered = FALSE
  /\ sched_steps = 0
  /\ args = NoArgs /\ text_embeddings = <<>> /\ timesteps = <<>> /\ latents = <<>>
  /\ i = 0 /\ unet_out = <<>> /\ noise_pred = <<>> /\ video = <<>>
  /\ iargs = NoInterpArgs /\ samples = <<>> /\ x_noise = <<>> /\ emb = <<>>
  /\ prompt_temp = <<>> /\ times = 0 /\ inner_step = <<>> /\ tgt_idx = <<>>
  /\ original_idx = <<>>
  /\ invoked = <<>> /\ accepted = <<>> /\ origin = <<>> /\ emb0 = <<>> /\ noise0 = <<>>
  /\ log = <<>> /\ fed = <<>> /\ left = <<>>
  /\ pre = [latents_store |-> <<>>, cur_step |-> 0, batch_size |-> 0,
            registered |-> FALSE, sched_steps |-> 0]

\* the locals of a fresh __call__ frame
FreshFrame(a) ==
  /\ args' = a
  /\ text_embeddings' = <<>> /\ timesteps' = <<>> /\ latents' = <<>> /\ i' = 0
  /\ unet_out' = <<>> /\ noise_pred' = <<>> /\ video' = <<>>
  /\ log' = <<>> /\ fed' = <<>> /\ left' = <<>>
  /\ pre' = Snapshot
  /\ err' = ""

\* the caller invokes pipeline(prompt, video_length, ...)
CallSampler ==
  /\ pc = "idle" /\ calls < MaxCalls
  /\ \E a \in (IF calls = 0 THEN DirectCalls ELSE InvalidCalls) : FreshFrame(a)
  /\ pc' = "reset" /\ calls' = calls + 1 /\ caller' = "env"
  /\ UNCHANGED <<interpVars, held, scheduler, byRef, ctrlVars, sched_steps>>

\* raise: the frame is left at "error" with the exception in err
Fail(kind) == pc' = "error" /\ err' = kind

\* ------------------------------------------------------------- __call__
\* controller.reset() and controller.batch_size = video_length
ControllerReset ==
  /\ pc = "reset"
  /\ latents_store' = <<>> /\ cur_step' = 0 /\ step_store' = 0
  /\ batch_size' = args.video_length
  /\ log' = Append(log, "reset")
  /\ pc' = "check"
  /\ UNCHANGED <<interpVars, calls, held, err, caller, scheduler, byRef, registered, sched_steps,
                 callVars, pre, fed, left>>

Height(a) == IF a.height = 0 THEN DefaultSize ELSE a.height
Width(a) == IF a.width = 0 THEN DefaultSize ELSE a.width

\* check_inputs with the callback_steps test admitting 0
CheckInputsError_Lax(a) ==
  IF a.prompt_type \notin {"str", "list"} THEN "ValueError: prompt type"
  ELSE IF Height(a) % SizeDivisor # 0 \/ Width(a) % SizeDivisor # 0
    THEN "ValueError: height and width"
  ELSE IF a.callback_steps_type = "NoneType"
          \/ a.callback_steps_type # "int" \/ a.callback_steps < 0
    THEN "ValueError: callback_steps"
  ELSE IF a.prompt_type = "list" /\ a.has_latents /\ Len(a.prompt) # Len(a.latents)
    THEN "ValueError: prompt frames"
  ELSE ""

\* check_inputs: "" when the inputs pass, else the error raised
CheckInputsError(a) ==
  IF a.prompt_type \notin {"str", "list"} THEN "ValueError: prompt type"
  ELSE IF Height(a) % SizeDivisor # 0 \/ Width(a) % SizeDivisor # 0
    THEN "ValueError: height and width"
  ELSE IF a.callback_steps_type = "NoneType"
          \/ a.callback_steps_type # "int" \/ a.callback_steps <= 0
    THEN "ValueError: callback_steps"
  ELSE IF a.prompt_type = "list" /\ a.has_latents /\ Len(a.prompt) # Len(a.latents)
    THEN "ValueError: prompt frames"
  ELSE ""

CheckInputs ==
  /\ pc = "check"
  /\ IF CheckInputsError(args) # "" THEN Fail(CheckInputsError(args))
     ELSE pc' = "encode" /\ err' = err
  /\ UNCHANGED <<interpVars, calls, held, caller, scheduler, byRef, ctrlVars, sched_steps, callVars, obsVars>>

\* guidance taken as enabled from guidance_scale = 1.0 on
DoClassifierFreeGuidance_Geq(a) == a.guidance_scale >= 1
\* do_classifier_free_guidance = guidance_scale > 1.0
DoClassifierFreeGuidance(a) == a.guidance_scale > 1

BatchSize(a) == IF a.prompt_type = "list" THEN Len(a.prompt) ELSE 1

\* _encode_prompt: the error it raises ("" when none) and the rows it returns
EncodePromptError(a) ==
  IF ~DoClassifierFreeGuidance(a) \/ a.negative_type = "NoneType" THEN ""
  ELSE IF a.negative_type # a.prompt_type THEN "TypeError: negative_prompt"
  ELSE IF a.negative_type = "str" THEN ""
  ELSE IF BatchSize(a) # Len(a.negative_prompt) THEN "ValueError: negative_prompt"
  ELSE ""

CondRows(a) == [j \in 1..BatchSize(a) |-> TextEncoder(a.prompt[j])]

UncondRows(a) ==
  IF a.negative_type = "NoneType" THEN [j \in 1..BatchSize(a) |-> TextEncoder(0)]
  ELSE [j \in 1..Len(a.negative_prompt) |-> TextEncoder(a.negative_prompt[j])]

EncodePromptRows(a) ==
  IF DoClassifierFreeGuidance(a) THEN UncondRows(a) \o CondRows(a) ELSE CondRows(a)

EncodePrompt ==
  /\ pc = "encode"
  /\ IF EncodePromptError(args) # ""
       THEN /\ Fail(EncodePromptError(args))
            /\ log' = Append(log, "text_encoder")
            /\ UNCHANGED text_embeddings
       ELSE /\ pc' = "init_emb" /\ err' = err
            /\ text_embeddings' = EncodePromptRows(args)
            /\ log' = IF DoClassifierFreeGuidance(args)
                        THEN log \o <<"text_encoder", "text_encoder">>
                        ELSE Append(log, "text_encoder")
  /\ UNCHANGED <<interpVars, calls, held, caller, scheduler, byRef, ctrlVars, sched_steps,
                 args, timesteps, latents, i, unet_out, noise_pred, video, pre, fed, left>>

\* text_embeddings[video_length:] = init_text_embedding
TailLen(rows, n) == Max(0, Len(rows) - n)
SetTail(rows, n, init) ==
  [j \in DOMAIN rows |->
     IF j <= n THEN rows[j] ELSE IF Len(init) = 1 THEN init[1] ELSE init[j - n]]

InitTextEmbedding ==
  /\ pc = "init_emb"
  /\ IF ~args.has_init
       THEN pc' = "timesteps" /\ UNCHANGED <<err, text_embeddings>>
     ELSE IF Len(args.init_text_embedding) \notin {1, TailLen(text_embeddings, args.video_length)}
       THEN Fail("RuntimeError: init_text_embedding") /\ UNCHANGED text_embeddings
     ELSE /\ pc' = "timesteps" /\ err' = err
          /\ text_embeddings' =
               SetTail(text_embeddings, args.video_length, args.init_text_embedding)
  /\ UNCHANGED <<interpVars, calls, held, caller, scheduler, byRef, ctrlVars, sched_steps,
                 args, timesteps, latents, i, unet_out, noise_pred, video, obsVars>>

\* scheduler.set_timesteps(num_inference_steps); timesteps = scheduler.timesteps
SetTimesteps ==
  /\ pc = "timesteps"
  /\ sched_steps' = args.num_inference_steps
  /\ timesteps' = Timesteps(scheduler, args.num_inference_steps)
  /\ pc' = "prepare"
  /\ UNCHANGED <<interpVars, calls, held, err, caller, scheduler, byRef, ctrlVars,
                 args, text_embeddings, latents, i, unet_out, noise_pred, video, obsVars>>

VaeScaleFactor == 2 ^ 3

\* prepare_latents: the error it raises ("" when none)
PrepareLatentsError(a) ==
  IF a.generator_type = "list" /\ a.generator_len # 1 THEN "ValueError: generator"
  ELSE IF a.has_latents
          /\ (Len(a.latents) # a.video_length
              \/ a.latents_hw # <<Height(a) \div VaeScaleFactor, Width(a) \div VaeScaleFactor>>)
    THEN "ValueError: latents shape"
  ELSE ""

PrepareLatents ==
  /\ pc = "prepare"
  /\ registered' = TRUE
  /\ IF PrepareLatentsError(args) # ""
       THEN Fail(PrepareLatentsError(args)) /\ UNCHANGED latents
       ELSE /\ pc' = "unet" /\ err' = err
            /\ \E x \in (IF args.has_latents THEN {args.latents}
                         ELSE StartLatents(args.video_length)) :
                 latents' = [j \in DOMAIN x |-> x[j] * InitNoiseSigma]
  /\ UNCHANGED <<interpVars, calls, held, caller, scheduler, byRef, latents_store, cur_step, batch_size,
                 step_store, sched_steps, args, text_embeddings, timesteps, i, unet_out,
                 noise_pred, video, obsVars>>

\* ------------------------------------------------------- denoising loop
T == timesteps[i + 1]
NumWarmupSteps == Len(timesteps) - args.num_inference_steps * scheduler.order

\* rows of text_embeddings seen by each half of the batch
UncondHalf(rows) == SubSeq(rows, 1, Len(rows) \div 2)
CondHalf(rows) == SubSeq(rows, Len(rows) \div 2 + 1, Len(rows))

\* latent_model_input and the unet forward pass of one step: the estimate of
\* every half of the batch
UnetHalves(a, x, t, rows) ==
  IF DoClassifierFreeGuidance(a)
    THEN <<Unet(ScaleModelInput(x, t), t, UncondHalf(rows)),
           Unet(ScaleModelInput(x, t), t, CondHalf(rows))>>
    ELSE <<Unet(ScaleModelInput(x, t), t, rows)>>

UnetForward ==
  /\ pc = "unet"
  /\ fed' = latents
  /\ unet_out' = UnetHalves(args, latents, T, text_embeddings)
  /\ step_store' = IF registered THEN step_store + Len(unet_out') ELSE step_store
  /\ log' = Append(log, "unet")
  /\ pc' = "guidance"
  /\ UNCHANGED <<interpVars, calls, held, err, caller, scheduler, byRef, latents_store, cur_step,
                 batch_size, registered, sched_steps, args, text_embeddings, timesteps,
                 latents, i, noise_pred, video, pre, left>>

\* noise_pred_uncond + guidance_scale * (noise_pred_text - noise_pred_uncond)
Combine(a, halves) ==
  IF DoClassifierFreeGuidance(a)
    THEN [j \in DOMAIN halves[1] |->
            halves[1][j] + a.guidance_scale * (halves[2][j] - halves[1][j])]
    ELSE halves[1]

Guidance ==
  /\ pc = "guidance"
  /\ noise_pred' = Combine(args, unet_out)
  /\ pc' = "scheduler"
  /\ UNCHANGED <<interpVars, calls, held, err, caller, scheduler, byRef, ctrlVars, sched_steps, args,
                 text_embeddings, timesteps, latents, i, unet_out, video, obsVars>>

StepScheduler ==
  /\ pc = "scheduler"
  /\ latents' = SchedulerStep(noise_pred, T, latents)
  /\ log' = Append(log, "scheduler")
  /\ pc' = "mask"
  /\ UNCHANGED <<interpVars, calls, held, err, caller, scheduler, byRef, ctrlVars, sched_steps, args,
                 text_embeddings, timesteps, i, unet_out, noise_pred, video, pre, fed, left>>

\* mask[1] * f_1 + mask[0] * latents, f_1 = latents[:, :, :1]
MaskActive(a, step) == a.has_mask /\ step < MaskSteps
Blend(m, x) == [j \in DOMAIN x |-> m[2] * x[1] + m[1] * x[j]]
\* einops repeat(t, 'b c 1 h w -> b c f h w', f = n): the frame axis of t must be 1
RepeatFrame(x, n) == [j \in 1..n |-> x[1]]

MaskBlend ==
  /\ pc = "mask"
  /\ IF ~MaskActive(args, i)
       THEN pc' = "callback" /\ UNCHANGED <<err, latents, log>>
     ELSE IF Len(Blend(args.mask, latents)) # 1
       THEN Fail("EinopsError: repeat") /\ latents' = Blend(args.mask, latents)
            /\ log' = Append(log, "mask")
     ELSE /\ pc' = "callback" /\ err' = err
          /\ latents' = RepeatFrame(Blend(args.mask, latents), args.video_length)
          /\ log' = Append(log, "mask")
  /\ UNCHANGED <<interpVars, calls, held, caller, scheduler, byRef, ctrlVars, sched_steps, args,
                 text_embeddings, timesteps, i, unet_out, noise_pred, video, pre, fed, left>>

\* the cadence without the test for the final step
ProgressDue_NoFinal(step) ==
  (step + 1) > NumWarmupSteps /\ (step + 1) % scheduler.order = 0
\* the cadence of the progress bar and of the user's callback
ProgressDue(step) ==
  \/ step = Len(timesteps) - 1
  \/ (step + 1) > NumWarmupSteps /\ (step + 1) % scheduler.order = 0
CallbackDue(a, step) == a.has_callback /\ step % a.callback_steps = 0

ProgressCallback ==
  /\ pc = "callback"
  /\ log' = IF ~ProgressDue(i) THEN log
            ELSE IF CallbackDue(args, i) THEN log \o <<"progress", "callback">>
            ELSE Append(log, "progress")
  /\ pc' = "step_callback"
  /\ UNCHANGED <<interpVars, calls, held, err, caller, scheduler, byRef, ctrlVars, sched_steps,
                 callVars, pre, fed, left>>

\* controller.step_callback(latents, inner_idx): a passthrough without
\* inner_idx, else the frames at inner_idx are adjusted; the controller records
\* the latents of the step under the step's number
Adjust(x, idx) ==
  [j \in DOMAIN x |-> IF (j - 1) \in Range(idx) THEN (x[j] + x[1] + 1) % NumVals ELSE x[j]]
StepCallbackOut(a, x) == IF a.has_inner THEN Adjust(x, a.inner_idx) ELSE x
Put(store, key, value) ==
  [j \in (DOMAIN store) \cup {key} |-> IF j = key THEN value ELSE store[j]]

StepCallback ==
  /\ pc = "step_callback"
  /\ cur_step' = cur_step + 1
  /\ latents' = StepCallbackOut(args, latents)
  /\ latents_store' = Put(latents_store, cur_step + 1, latents')
  /\ log' = Append(log, "step_callback")
  /\ pc' = "fix"
  /\ UNCHANGED <<interpVars, calls, held, err, caller, scheduler, byRef, batch_size, step_store,
                 registered, sched_steps, args, text_embeddings, timesteps, i, unet_out,
                 noise_pred, video, pre, fed, left>>

\* latents[:, :, fixed_latents_idx] = fixed_latents[i + 1]
\* the overwrite reading the constraint one step further on
FixedKey_Off(step) == step + 2
\* the key i + 1 of fixed_latents read in step i
FixedKey(step) == step + 1
FixLatentsError(a, x, step) ==
  IF FixedKey(step) \notin DOMAIN a.fixed_latents THEN "KeyError: fixed_latents"
  ELSE IF \E p \in Range(a.fixed_latents_idx) : p >= Len(x) THEN "IndexError: fixed_latents_idx"
  ELSE IF Len(a.fixed_latents[FixedKey(step)]) \notin {1, Len(a.fixed_latents_idx)}
    THEN "RuntimeError: fixed_latents shape"
  ELSE ""
Overwrite(x, idx, value) ==
  [j \in DOMAIN x |->
     IF (j - 1) \in Range(idx)
       THEN LET q == CHOOSE q \in DOMAIN idx : idx[q] = j - 1 /\ \A r \in DOMAIN idx : idx[r] = j - 1 => r <= q
            IN IF Len(value) = 1 THEN value[1] ELSE value[q]
       ELSE x[j]]

FixLatents ==
  /\ pc = "fix"
  /\ IF ~args.has_fixed
       THEN pc' = "empty_cache" /\ UNCHANGED <<err, latents, latents_store, log>>
     ELSE IF FixLatentsError(args, latents, i) # ""
       THEN Fail(FixLatentsError(args, latents, i)) /\ UNCHANGED <<latents, latents_store, log>>
     ELSE /\ pc' = "empty_cache" /\ err' = err
          /\ latents' = Overwrite(latents, args.fixed_latents_idx,
                                  args.fixed_latents[FixedKey(i)])
          /\ latents_store' = IF byRef THEN Put(latents_store, cur_step, latents')
                              ELSE latents_store
          /\ log' = Append(log, "fix")
  /\ UNCHANGED <<interpVars, calls, held, caller, scheduler, byRef, cur_step, batch_size, step_store,
                 registered, sched_steps, args, text_embeddings, timesteps, i, unet_out,
                 noise_pred, video, pre, fed, left>>

\* the loop with empty_cache left out of its body
EmptyCache_Skipped ==
  /\ pc = "empty_cache"
  /\ left' = latents
  /\ i' = i + 1
  /\ pc' = IF i + 1 < Len(timesteps) THEN "unet" ELSE "decode"
  /\ UNCHANGED <<interpVars, calls, held, err, caller, scheduler, byRef, ctrlVars,
                 sched_steps, args, text_embeddings, timesteps, latents, unet_out,
                 noise_pred, video, pre, fed, log>>

\* controller.empty_cache(), the end of one step of the loop
EmptyCache ==
  /\ pc = "empty_cache"
  /\ step_store' = 0
  /\ log' = Append(log, "empty_cache")
  /\ left' = latents
  /\ i' = i + 1
  /\ pc' = IF i + 1 < Len(timesteps) THEN "unet" ELSE "decode"
  /\ UNCHANGED <<interpVars, calls, held, err, caller, scheduler, byRef, latents_store, cur_step,
                 batch_size, registered, sched_steps, args, text_embeddings, timesteps,
                 latents, unet_out, noise_pred, video, pre, fed>>

\* decode_latents
DecodeLatents ==
  /\ pc = "decode"
  /\ video' = [j \in DOMAIN latents |-> DecodeFrame(latents[j])]
  /\ log' = Append(log, "vae")
  /\ pc' = "return"
  /\ UNCHANGED <<interpVars, calls, held, err, caller, scheduler, byRef, ctrlVars, sched_steps, args,
                 text_embeddings, timesteps, latents, i, unet_out, noise_pred, pre, fed, left>>

\* the frame of a finished call is gone
PopFrame ==
  /\ args' = NoArgs
  /\ text_embeddings' = <<>> /\ timesteps' = <<>> /\ latents' = <<>> /\ i' = 0
  /\ unet_out' = <<>> /\ noise_pred' = <<>> /\ video' = <<>>
  /\ log' = <<>> /\ fed' = <<>> /\ left' = <<>>
  /\ pre' = Snapshot

PopInterpFrame ==
  /\ iargs' = NoInterpArgs /\ samples' = <<>> /\ x_noise' = <<>> /\ emb' = <<>>
  /\ prompt_temp' = <<>> /\ times' = 0 /\ inner_step' = <<>> /\ tgt_idx' = <<>>
  /\ original_idx' = <<>>
  /\ invoked' = <<>> /\ accepted' = <<>> /\ origin' = <<>> /\ emb0' = <<>> /\ noise0' = <<>>

\* return SpatioTemporalPipelineOutput(videos=video) to the caller
ReturnToCaller ==
  /\ pc = "return" /\ caller = "env"
  /\ held' = IF args.prompt_type = "list" /\ args.has_latents
               THEN [ok |-> TRUE, video |-> video, latents |-> args.latents,
                     prompt |-> args.prompt, steps |-> args.num_inference_steps,
                     final |-> latents]
               ELSE NoHeld
  /\ PopFrame
  /\ pc' = "idle"
  /\ UNCHANGED <<interpVars, calls, err, caller, scheduler, byRef, ctrlVars, sched_steps>>

\* an exception leaves every frame and reaches the caller
Raise ==
  /\ pc = "error"
  /\ PopFrame /\ PopInterpFrame
  /\ pc' = "idle" /\ caller' = "env"
  /\ UNCHANGED <<calls, held, err, scheduler, byRef, ctrlVars, sched_steps>>

\* ------------------------------------------ interpolate_between_two_frames
\* the caller's first call in a run that interpolates: a plain call, on a
\* pipeline with a first-order scheduler
GenerateVideo ==
  /\ pc = "idle" /\ calls = 0 /\ scheduler.order = 1
  /\ \E a \in PlainCalls : FreshFrame(a)
  /\ pc' = "reset" /\ calls' = calls + 1 /\ caller' = "env"
  /\ UNCHANGED <<interpVars, held, scheduler, byRef, ctrlVars, sched_steps>>

\* s[:, :, idx]: the frames of s at the positions idx
Take(s, idx) == [j \in DOMAIN idx |-> At(s, idx[j])]

\* the anchor lists the caller passes as `where`: positions of the video it
\* holds, in increasing order
IsIncreasing(idx) == \A a, b \in DOMAIN idx : a < b => idx[a] < idx[b]
Wheres(n) ==
  {w \in UNION {SeqOfLen(Positions(n), m) : m \in 1..n} : IsIncreasing(w)}

\* the frames of its video the caller passes as samples: those at `where`, or
\* the whole video with `where` naming its leading frames
Passed(w, n) ==
  {w} \cup (IF \A j \in DOMAIN w : w[j] = j - 1 THEN {[j \in 1..n |-> j - 1]} ELSE {})

\* the controller's store is the one left by the run that made the video
StoreOf(v) == latents_store # <<>> /\ \A key \in DOMAIN latents_store : Len(latents_store[key]) = Len(v)

\* the caller invokes interpolate_between_two_frames on the video it holds,
\* while the controller still has the store of that video's run
\* (text_embedding is left None, base_noise is the start noise of the video)
CallInterpolate ==
  /\ pc = "idle" /\ held.ok /\ calls < MaxCalls /\ StoreOf(held.video)
  /\ \E w \in Wheres(Len(held.video)), kk \in 1..MaxK, g \in 1..2, r \in 0..1 :
       \E fr \in Passed(w, Len(held.video)) :
         /\ iargs' = [where |-> w, k |-> kk, rand_ratio |-> r, base_noise |-> held.latents,
                      guidance_scale |-> g, num_inference_steps |-> held.steps,
                      prompt |-> Take(held.prompt, fr), negative_prompt |-> 0]
         /\ samples' = Take(held.video, fr)
         /\ x_noise' = Take(held.latents, fr)
         /\ accepted' = Take(held.final, fr)
  /\ pc' = "interp_begin" /\ calls' = calls + 1 /\ err' = ""
  /\ UNCHANGED <<held, caller, scheduler, byRef, ctrlVars, sched_steps, callVars, obsVars,
                 emb, prompt_temp, times, inner_step, tgt_idx, original_idx, invoked,
                 origin, emb0, noise0>>

\* text_embeddings = _encode_prompt(prompt, device, n, 0, None); times = 0
InterpolateBegin ==
  /\ pc = "interp_begin"
  /\ emb' = [j \in DOMAIN iargs.prompt |-> TextEncoder(iargs.prompt[j])]
  /\ prompt_temp' = iargs.prompt
  /\ times' = 0
  /\ origin' = [j \in DOMAIN iargs.prompt |-> j - 1]
  /\ emb0' = emb' /\ noise0' = x_noise
  /\ invoked' = <<>>
  /\ pc' = "iter"
  /\ UNCHANGED <<calls, held, err, caller, scheduler, byRef, ctrlVars, sched_steps, callVars,
                 obsVars, iargs, samples, x_noise, inner_step, tgt_idx, original_idx,
                 accepted>>

\* while times < k: inner_step = controller.latents_store, restricted in place
\* to the frames at `where` in the first iteration
Restrict(store, idx) == [key \in DOMAIN store |-> Take(store[key], idx)]
SliceStore(store, t, idx) == IF t = 0 THEN Restrict(store, idx) ELSE store

\* an index of `where` beyond the frames the store holds
SliceStoreError(store, t, idx) ==
  t = 0 /\ \E key \in DOMAIN store, p \in Range(idx) : p >= Len(store[key])

\* the loop condition taken as times <= k
LoopContinues_Leq(t, k) == t <= k
\* while times < k
LoopContinues(t, k) == t < k

IterationBegin ==
  /\ pc = "iter"
  /\ IF ~LoopContinues(times, iargs.k)
       THEN /\ pc' = "interp_return"
            /\ UNCHANGED <<inner_step, latents_store, err>>
     ELSE IF SliceStoreError(latents_store, times, iargs.where)
       THEN /\ Fail("IndexError: where")
            /\ UNCHANGED <<inner_step, latents_store>>
     ELSE /\ inner_step' = SliceStore(latents_store, times, iargs.where)
          /\ latents_store' = inner_step'
          /\ pc' = "select" /\ err' = err
  /\ UNCHANGED <<calls, held, caller, scheduler, byRef, cur_step, batch_size, step_store,
                 registered, sched_steps, callVars, obsVars, iargs, samples, x_noise, emb,
                 prompt_temp, times, tgt_idx, original_idx, invoked, accepted, origin, emb0,
                 noise0>>

\* mse_loss(samples[:, :, j + 1], samples[:, :, j]) for every consecutive pair
Dist(s) == [j \in 1..(Len(s) - 1) |-> (s[j + 1] - s[j]) * (s[j + 1] - s[j])]

\* torch.topk(dist, k = num_insert): any num_insert positions no other position
\* exceeds (which of several equal ones is chosen is not fixed)
TopK(d, n) ==
  {S \in SUBSET Positions(Len(d)) :
     /\ Cardinality(S) = n
     /\ \A a \in S, b \in Positions(Len(d)) \ S : At(d, a) >= At(d, b)}

\* sorted(idx)
RECURSIVE Sorted(_)
Sorted(S) ==
  IF S = {} THEN <<>>
  ELSE LET m == CHOOSE m \in S : \A o \in S : m <= o IN <<m>> \o Sorted(S \ {m})

\* tgt_video_length = num_insert + f
TgtVideoLength(f) == NumInsert + f

\* the insertion placed at the selected index itself
TgtIdx_NoShift(idx) == [j \in DOMAIN idx |-> idx[j] + (j - 1)]
\* tgt_idx = [id + 1 + i for i, id in enumerate(idx)]
TgtIdx(idx) == [j \in DOMAIN idx |-> idx[j] + 1 + (j - 1)]
\* the index list taking every position of the new layout
OriginalIdx_All(n, tgt) == Sorted(Positions(n))
\* original_idx = [i for i in range(tgt_video_length) if i not in tgt_idx]
OriginalIdx(n, tgt) == Sorted(Positions(n) \ Range(tgt))

SelectPair ==
  /\ pc = "select"
  /\ IF Len(samples) - 1 < NumInsert
       THEN Fail("RuntimeError: topk") /\ UNCHANGED <<tgt_idx, original_idx>>
       ELSE /\ \E S \in TopK(Dist(samples), NumInsert) : tgt_idx' = TgtIdx(Sorted(S))
            /\ original_idx' = OriginalIdx(TgtVideoLength(Len(samples)), tgt_idx')
            /\ pc' = "build" /\ err' = err
  /\ UNCHANGED <<calls, held, caller, scheduler, byRef, ctrlVars, sched_steps, callVars,
                 obsVars, iargs, samples, x_noise, emb, prompt_temp, times, inner_step,
                 invoked, accepted, origin, emb0, noise0>>

\* the loop over range(tgt_video_length): prompt_i counts the kept frames
\* before position p
PromptI(p, tgt) == Cardinality({q \in Positions(p) : q \notin Range(tgt)})
PreIdx(p, orig) == CHOOSE q \in Range(orig) : q < p /\ \A o \in Range(orig) : o < p => o <= q
NextIdx(p, orig) == CHOOSE q \in Range(orig) : q > p /\ \A o \in Range(orig) : o > p => q <= o

\* np.cos(rand_ratio * np.pi / 2) and np.sin(rand_ratio * np.pi / 2)
CosHalfPi(r) == IF r = 0 THEN 1 ELSE 0
SinHalfPi(r) == IF r = 0 THEN 0 ELSE 1
BlendNoise(r, base, fresh) == CosHalfPi(r) * At(base, 0) + SinHalfPi(r) * fresh

\* the inserted frame given the embedding of the frame before it
BlendEmbedding_Pre(e, p, tgt, orig) == At(e, PromptI(p, tgt) - 1)
\* (next_idx - i) / length * text_embeddings[prompt_i - 1]
\*   + (i - pre_idx) / length * text_embeddings[prompt_i]
BlendEmbedding(e, p, tgt, orig) ==
  ((NextIdx(p, orig) - p) * At(e, PromptI(p, tgt) - 1)
   + (p - PreIdx(p, orig)) * At(e, PromptI(p, tgt)))
  \div (NextIdx(p, orig) - PreIdx(p, orig))

\* a kept frame reading the entry before its own
KeptSource_Off(p, tgt) == Max(0, PromptI(p, tgt) - 1)
\* a kept frame takes entry prompt_i of the previous layout
KeptSource(p, tgt) == PromptI(p, tgt)

NewNoise(x, tgt, n, r, base, fresh) ==
  [j \in 1..n |-> IF (j - 1) \in Range(tgt) THEN BlendNoise(r, base, fresh[j])
                  ELSE At(x, KeptSource(j - 1, tgt))]
NewEmbeddings(e, tgt, orig, n) ==
  [j \in 1..n |-> IF (j - 1) \in Range(tgt) THEN BlendEmbedding(e, j - 1, tgt, orig)
                  ELSE At(e, KeptSource(j - 1, tgt))]
NewPrompts(pr, tgt, n) ==
  [j \in 1..n |-> IF (j - 1) \in Range(tgt) THEN 0 ELSE At(pr, KeptSource(j - 1, tgt))]

\* the fresh noise torch.randn_like draws for the inserted frames (0 elsewhere)
\* the values a fresh draw takes
NoiseDraws == {1, 2}
FreshNoise(tgt, n, r) ==
  {fr \in SeqOfLen(Vals, n) :
     \A j \in 1..n : IF (j - 1) \notin Range(tgt) \/ r = 0 THEN fr[j] = 0
                     ELSE fr[j] \in NoiseDraws}

InsertMarks(o, tgt, n) ==
  [j \in 1..n |-> IF (j - 1) \in Range(tgt) THEN -1
                  ELSE o[j - Cardinality({q \in Range(tgt) : q < j - 1})]]

BuildLayout ==
  /\ pc = "build"
  /\ LET n == TgtVideoLength(Len(samples)) IN
       /\ \E fr \in FreshNoise(tgt_idx, n, iargs.rand_ratio) :
            x_noise' = NewNoise(x_noise, tgt_idx, n, iargs.rand_ratio, iargs.base_noise, fr)
       /\ emb' = NewEmbeddings(emb, tgt_idx, original_idx, n)
       /\ prompt_temp' = NewPrompts(prompt_temp, tgt_idx, n)
       /\ origin' = InsertMarks(origin, tgt_idx, n)
  /\ pc' = "invoke"
  /\ UNCHANGED <<calls, held, err, caller, scheduler, byRef, ctrlVars, sched_steps, callVars,
                 obsVars, iargs, samples, times, inner_step, tgt_idx, original_idx, invoked,
                 accepted, emb0, noise0>>

\* samples, prompt_embedding = self(prompt_temp, tgt_video_length, ...)
SamplerArgs ==
  [NoArgs EXCEPT
     !.prompt_type = "list", !.prompt = prompt_temp,
     !.video_length = TgtVideoLength(Len(samples)),
     !.num_inference_steps = iargs.num_inference_steps,
     !.guidance_scale = iargs.guidance_scale,
     !.negative_type = "list",
     !.negative_prompt = Flat(TgtVideoLength(Len(samples)), iargs.negative_prompt),
     !.has_latents = TRUE, !.latents = x_noise, !.latents_hw = <<SampleSize, SampleSize>>,
     !.has_init = TRUE, !.init_text_embedding = emb,
     !.has_inner = TRUE, !.inner_idx = tgt_idx,
     !.has_fixed = TRUE, !.fixed_latents = inner_step,
     !.fixed_latents_idx = original_idx]

InvokeSampler ==
  /\ pc = "invoke"
  /\ FreshFrame(SamplerArgs)
  /\ invoked' = Append(invoked, SamplerArgs.video_length)
  /\ caller' = "interp"
  /\ pc' = "reset"
  /\ UNCHANGED <<calls, held, scheduler, byRef, ctrlVars, sched_steps, iargs, samples,
                 x_noise, emb, prompt_temp, times, inner_step, tgt_idx, original_idx,
                 accepted, origin, emb0, noise0>>

\* the sampler returns to the loop: times += 1
ReturnToInterpolate ==
  /\ pc = "return" /\ caller = "interp"
  /\ samples' = video
  /\ accepted' = latents
  /\ times' = times + 1
  /\ PopFrame
  /\ caller' = "env"
  /\ pc' = "iter"
  /\ UNCHANGED <<calls, held, err, scheduler, byRef, ctrlVars, sched_steps, iargs, x_noise,
                 emb, prompt_temp, inner_step, tgt_idx, original_idx, invoked, origin, emb0,
                 noise0>>

\* return samples[0]
InterpolateReturn ==
  /\ pc = "interp_return"
  /\ PopInterpFrame
  /\ held' = NoHeld
  /\ pc' = "idle"
  /\ UNCHANGED <<calls, err, caller, scheduler, byRef, ctrlVars, sched_steps, callVars,
                 obsVars>>

SamplerStep ==
  \/ ControllerReset \/ CheckInputs \/ EncodePrompt \/ InitTextEmbedding
  \/ SetTimesteps \/ PrepareLatents \/ UnetForward \/ Guidance \/ StepScheduler
  \/ MaskBlend \/ ProgressCallback \/ StepCallback \/ FixLatents \/ EmptyCache
  \/ DecodeLatents \/ ReturnToCaller \/ Raise

Next == CallSampler \/ SamplerStep

Spec == Init /\ [][Next]_vars

NextInterp ==
  \/ GenerateVideo \/ SamplerStep
  \/ CallInterpolate \/ InterpolateBegin \/ IterationBegin \/ SelectPair \/ BuildLayout
  \/ InvokeSampler \/ ReturnToInterpolate \/ InterpolateReturn

SpecInterp == Init /\ [][NextInterp]_vars

TypeOK ==
  /\ pc \in {"idle", "reset", "check", "encode", "init_emb", "timesteps", "prepare", "unet",
             "guidance", "scheduler", "mask", "callback", "step_callback", "fix",
             "empty_cache", "decode", "return", "error", "interp_begin", "iter", "select",
             "build", "invoke", "interp_return"}
  /\ calls \in 0..MaxCalls

\* ------------------------------------------------------------- claims
InSampler ==
  pc \in {"reset", "check", "encode", "init_emb", "timesteps", "prepare", "unet", "guidance",
          "scheduler", "mask", "callback", "step_callback", "fix", "empty_cache", "decode",
          "return"}
InInterpolate == pc \in {"iter", "select", "build", "invoke", "interp_return"}

\* C1: interpolate_between_two_frames runs exactly k iterations; the j-th
\* invokes the sampler once, with one frame (num_insert) more than the samples
\* the iteration started with, so f0 frames have become f0 + k on return.
C1_FrameCount ==
  /\ \A j \in DOMAIN invoked : invoked[j] = Len(iargs.prompt) + j * NumInsert
  /\ InInterpolate =>
       /\ Len(invoked) = times
       /\ Len(samples) = Len(iargs.prompt) + times * NumInsert
  /\ (InSampler /\ caller = "interp") =>
       /\ Len(invoked) = times + 1
       /\ args.video_length = Len(samples) + NumInsert
  /\ pc = "return" /\ caller = "interp" => Len(video) = Len(samples) + NumInsert
  /\ pc = "interp_return" =>
       /\ times = iargs.k
       /\ Len(invoked) = iargs.k
       /\ Len(samples) = Len(iargs.prompt) + iargs.k * NumInsert

C1_Witness ==
  pc = "interp_return" /\ iargs.k = 2 /\ Len(iargs.where) = MaxFrames
  /\ Len(samples) = MaxFrames + 2

\* C2: during an interpolation, after any number of iterations, every position
\* that holds an original frame has that frame's original embedding and noise,
\* and the original frames are all there, in their original order.
C2_KeptUnchanged ==
  (InInterpolate \/ (InSampler /\ caller = "interp")) =>
    /\ Len(emb) = Len(origin) /\ Len(x_noise) = Len(origin)
    /\ \A p \in DOMAIN origin :
         origin[p] >= 0 => /\ emb[p] = At(emb0, origin[p])
                           /\ x_noise[p] = At(noise0, origin[p])
    /\ \A p, q \in DOMAIN origin :
         (p < q /\ origin[p] >= 0 /\ origin[q] >= 0) => origin[p] < origin[q]
    /\ {origin[p] : p \in DOMAIN origin} \ {-1} = Positions(Len(emb0))

C2_Witness ==
  /\ pc = "interp_return" /\ iargs.k = 2 /\ iargs.rand_ratio = 1
  /\ Cardinality({p \in DOMAIN origin : origin[p] = -1}) = 2
  /\ \E p \in DOMAIN origin : origin[p] = -1 /\ emb[p] \notin Range(emb0)

\* C3: when a sampler run of the interpolation ends, its final latents at every
\* kept position are the accepted final latents of the previous run at the
\* corresponding old position (`where` naming one position per initial frame).
C3_KeptLatents ==
  (pc = "return" /\ caller = "interp" /\ Len(iargs.where) = Len(iargs.prompt)) =>
    \A q \in DOMAIN original_idx : At(latents, original_idx[q]) = accepted[q]

\* the frames of x at the constrained positions are the constraint of `key`
FixedAt(x, key) ==
  \A q \in DOMAIN args.fixed_latents_idx :
    At(x, args.fixed_latents_idx[q]) =
      (IF Len(args.fixed_latents[key]) = 1 THEN args.fixed_latents[key][1]
       ELSE args.fixed_latents[key][q])

\* C4: with a constraint set supplied, after step i the latents at every
\* constrained position are the constraint for step i + 1, and they still are
\* when the next step's denoiser, or the final decode, reads them.
C4_FixedLatents ==
  args.has_fixed =>
    /\ pc = "empty_cache" => FixedAt(latents, i + 1)
    /\ (pc \in {"unet", "decode", "return"} /\ i >= 1) => FixedAt(latents, i)
    /\ (pc = "guidance" /\ i >= 1) => FixedAt(fed, i)
    /\ (pc = "return") =>
         \A q \in DOMAIN args.fixed_latents_idx :
           At(video, args.fixed_latents_idx[q]) =
             DecodeFrame(At(latents, args.fixed_latents_idx[q]))

C4_Witness ==
  /\ args.has_fixed /\ pc = "guidance" /\ i = 1 /\ Len(args.fixed_latents) >= 2
  /\ At(fed, args.fixed_latents_idx[1]) = args.fixed_latents[1][1]
  /\ args.fixed_latents[1] # args.fixed_latents[2]

ValidationErrors ==
  {"ValueError: prompt type", "ValueError: height and width", "ValueError: callback_steps",
   "ValueError: prompt frames", "TypeError: negative_prompt", "ValueError: negative_prompt",
   "ValueError: generator", "ValueError: latents shape"}

\* C5: a sampler call that fails with a validation error has run no denoising
\* step and has left the controller's store and frame count, the attention
\* hooks and the scheduler's schedule as they were before the call.
C5_NoPartialExecution ==
  (pc = "error" /\ err \in ValidationErrors) =>
    /\ \A j \in DOMAIN log : log[j] # "unet"
    /\ latents_store = pre.latents_store
    /\ batch_size = pre.batch_size
    /\ registered = pre.registered
    /\ sched_steps = pre.sched_steps

Networks == {"text_encoder", "unet", "vae"}
BadSize(a) == Height(a) % 8 # 0 \/ Width(a) % 8 # 0
BadCallbackSteps(a) == a.callback_steps_type # "int" \/ a.callback_steps < 1

\* C6: a call whose height or width is not a multiple of 8, or whose
\* callback_steps is not a positive integer, raises a validation error of
\* check_inputs, and no network has been invoked when it does.
C6_FailFast ==
  ((BadSize(args) \/ BadCallbackSteps(args)) /\ pc \notin {"idle", "reset", "check"}) =>
    /\ pc = "error"
    /\ err \in {"ValueError: prompt type", "ValueError: height and width",
                "ValueError: callback_steps"}
    /\ \A j \in DOMAIN log : log[j] \notin Networks

C6_Witness ==
  /\ pc = "error" /\ err = "ValueError: callback_steps" /\ args.callback_steps = 0
  /\ args.callback_steps_type = "int" /\ ~BadSize(args) /\ log = <<"reset">>

\* C7: in a run with a frame mask, each of the steps 0..9 blends and hands on
\* latents whose frames all equal the blended frame 0 (the run does not stop
\* in the blend), and from step 10 on no blend occurs.
C7_MaskBroadcast ==
  args.has_mask =>
    /\ err # "EinopsError: repeat"
    /\ (pc \in {"callback", "step_callback"} /\ i < MaskSteps) =>
         \A j \in DOMAIN latents : latents[j] = latents[1]

\* the events of the last step begun
LastUnet == CHOOSE j \in DOMAIN log : log[j] = "unet" /\ \A m \in DOMAIN log : log[m] = "unet" => m <= j
OnFinalStep(ev) == \E j \in DOMAIN log : j > LastUnet /\ log[j] = ev

\* C8 as stated: a callback that is provided has been invoked on the final step
\* when the loop ends.
C8_CallbackOnFinalStep ==
  (pc = "decode" /\ args.has_callback) => OnFinalStep("callback")

\* C8 as amended: the progress update always fires on the final step; the
\* callback, when provided, is invoked on the final step exactly when the final
\* step's index is a multiple of callback_steps, and never when not provided.
C8_CallbackCadence ==
  pc = "decode" =>
    /\ OnFinalStep("progress")
    /\ OnFinalStep("callback") <=>
         (args.has_callback /\ (Len(timesteps) - 1) % args.callback_steps = 0)

C8_Witness ==
  /\ pc = "decode" /\ args.has_callback /\ args.callback_steps = 2
  /\ Len(timesteps) = 3 /\ OnFinalStep("callback")

\* C9: the batch is duplicated, and the estimate combined as
\* uncond + guidance_scale * (cond - uncond), exactly when guidance_scale > 1.0;
\* with guidance_scale = 1.0 the estimate given to the scheduler is the
\* estimate of the denoiser on the conditional embeddings alone.
C9_Guidance ==
  /\ pc \in {"guidance", "scheduler"} =>
       Len(unet_out) = (IF args.guidance_scale > 1 THEN 2 ELSE 1)
  /\ pc = "scheduler" =>
       /\ args.guidance_scale > 1 =>
            \A j \in DOMAIN noise_pred :
              noise_pred[j] = unet_out[1][j]
                              + args.guidance_scale * (unet_out[2][j] - unet_out[1][j])
       /\ args.guidance_scale <= 1 => noise_pred = unet_out[1]
       /\ args.guidance_scale = 1 =>
            noise_pred = Unet(ScaleModelInput(fed, T), T,
                              [j \in 1..BatchSize(args) |-> TextEncoder(args.prompt[j])])

C9_Witness ==
  /\ pc = "scheduler" /\ args.guidance_scale = 1 /\ Len(fed) = 2
  /\ noise_pred = unet_out[1]

\* the events that may follow an event of a sampler call
Follows(ev) ==
  CASE ev = "reset" -> {"text_encoder"}
    [] ev = "text_encoder" -> {"text_encoder", "unet"}
    [] ev = "unet" -> {"scheduler"}
    [] ev = "scheduler" -> {"mask", "progress", "step_callback"}
    [] ev = "mask" -> {"progress", "step_callback"}
    [] ev = "progress" -> {"callback", "step_callback"}
    [] ev = "callback" -> {"step_callback"}
    [] ev = "step_callback" -> {"fix", "empty_cache"}
    [] ev = "fix" -> {"empty_cache"}
    [] ev = "empty_cache" -> {"unet", "vae"}
    [] OTHER -> {}

\* C10: the controller is reset once, before the first step; a step calls the
\* denoiser, the scheduler, the mask blend, the progress callback, step_callback
\* once, the overwrite and empty_cache once, in this order; and the latents a
\* step leaves are the latents the next step is fed.
C10_StepOrder ==
  /\ (InSampler /\ pc # "reset") =>
       /\ log[1] = "reset"
       /\ Cardinality({j \in DOMAIN log : log[j] = "reset"}) = 1
  /\ \A j \in DOMAIN log : j > 1 => log[j] \in Follows(log[j - 1])
  /\ (pc \in {"unet", "decode"} /\ i >= 1) =>
       /\ log[Len(log)] = "empty_cache"
       /\ Cardinality({j \in DOMAIN log : log[j] = "step_callback"}) = i
       /\ cur_step = i
       /\ left = latents
  /\ (pc = "guidance" /\ i >= 1) => fed = left

C10_Witness ==
  /\ pc = "decode" /\ i = 3 /\ args.has_callback
  /\ Cardinality({j \in DOMAIN log : log[j] = "empty_cache"}) = 3

\* the layout of the running iteration is built and not yet replaced
LayoutBuilt == pc = "invoke" \/ (InSampler /\ caller = "interp")
Selected == pc = "build" \/ LayoutBuilt

\* the mean-squared difference of the frames at positions p and p + 1
PairDist(s, p) == (At(s, p + 1) - At(s, p)) * (At(s, p + 1) - At(s, p))

\* C11: in every iteration the inserted position is selected_index + 1, where
\* the frames at selected_index and selected_index + 1 of the current samples
\* differ at least as much as every other consecutive pair (the j-th smallest of
\* several selections shifted by j).
C11_InsertPosition ==
  Selected =>
    /\ Len(tgt_idx) = NumInsert
    /\ \A j \in DOMAIN tgt_idx :
         LET sel == tgt_idx[j] - 1 - (j - 1) IN
           /\ sel \in Positions(Len(samples) - 1)
           /\ \A b \in Positions(Len(samples) - 1) :
                PairDist(samples, b) <= PairDist(samples, sel)

C11_Witness ==
  /\ pc = "invoke" /\ Len(samples) = 3 /\ tgt_idx = <<2>>
  /\ PairDist(samples, 1) > PairDist(samples, 0)

\* C12: every inserted position has a kept position right before and right
\* after it in the new layout, and its embedding is
\* ((next - i) * E_pre + (i - pre) * E_next) / (next - pre) for the nearest kept
\* positions pre and next and the embeddings of those two kept frames.
C12_BlendedEmbedding ==
  LayoutBuilt =>
    \A p \in Range(tgt_idx) :
      /\ p > 0 /\ p < Len(emb) - 1
      /\ p - 1 \in Range(original_idx) /\ p + 1 \in Range(original_idx)
      /\ LET before == p - 1
             after == p + 1
         IN (after - before) * At(emb, p)
              = (after - p) * At(emb, before) + (p - before) * At(emb, after)

C12_Witness ==
  /\ pc = "invoke" /\ times = 1 /\ tgt_idx = <<1>>
  /\ At(emb, 0) # At(emb, 2) /\ 2 * At(emb, 1) = At(emb, 0) + At(emb, 2)

\* the conditioning rows a sampler call returns: text_embeddings[video_length:]
ReturnedEmbedding == SubSeq(text_embeddings, args.video_length + 1, Len(text_embeddings))

\* C13: for every guidance_scale, a sampler call made by the interpolation
\* loop does not stop on its embeddings, conditions the denoiser on the blended
\* sequence of the iteration (one embedding per frame of the new layout) and
\* returns that sequence.
C13_Conditioning ==
  (caller = "interp" /\ (InSampler \/ pc = "error")) =>
    /\ err # "RuntimeError: init_text_embedding"
    /\ pc \in {"unet", "guidance", "scheduler", "mask", "callback", "step_callback", "fix",
               "empty_cache", "decode", "return"} =>
         /\ Len(emb) = args.video_length
         /\ CondHalf(text_embeddings) = emb
         /\ ReturnedEmbedding = emb

\* a sampler call made by the interpolation loop is running
InInterpSampler == InSampler /\ caller = "interp"

\* C14: while a sampler call of the interpolation loop runs, the constraint set
\* it applies stays the snapshot it was handed, whatever the controller's reset
\* and store writes do; and no step of the interpolation loop itself changes
\* the controller's live store.
C14_Snapshot ==
  [][/\ (InInterpSampler /\ InInterpSampler') =>
          /\ args'.fixed_latents = args.fixed_latents
          /\ args.fixed_latents = inner_step
     /\ (pc \in {"interp_begin", "iter", "select", "build", "invoke"}) =>
          latents_store' = latents_store]_vars

\* every value of the constraint set has n frames
FramesOf(fixed, n) == \A key \in DOMAIN fixed : Len(fixed[key]) = n

\* C15: in every iteration the constrained indices handed to the sampler are
\* exactly the kept positions of the new layout, none of them an inserted
\* position; the store is restricted to `where` in the first iteration only, so
\* every constraint value has as many frames as there are constrained indices
\* from the second iteration on, and in the first exactly when `where` has one
\* entry per initial frame.
C15_ConstrainedIndices ==
  LayoutBuilt =>
    /\ Range(original_idx) = Positions(Len(samples) + NumInsert) \ Range(tgt_idx)
    /\ Len(original_idx) = Len(samples) /\ IsIncreasing(original_idx)
    /\ Range(original_idx) \cap Range(tgt_idx) = {}
    /\ FramesOf(inner_step, IF times = 0 THEN Len(iargs.where) ELSE Len(samples))
    /\ inner_step # <<>> =>
         (FramesOf(inner_step, Len(original_idx))
            <=> (times >= 1 \/ Len(iargs.where) = Len(iargs.prompt)))
    /\ InInterpSampler =>
         /\ args.fixed_latents_idx = original_idx
         /\ args.fixed_latents = inner_step

C15_Witness ==
  /\ InInterpSampler /\ pc = "fix" /\ times = 0
  /\ Len(iargs.where) = 2 /\ Len(args.fixed_latents_idx) = 3
  /\ ~FramesOf(args.fixed_latents, Len(args.fixed_latents_idx))
====
